---- MODULE Spec2Model ----
(***************************************************************************)
(* Model of the task queue of batch_video_editor: QueueManager             *)
(* (core/queue_manager.py), FFmpegWorker (core/worker.py) and the status   *)
(* methods of VideoTask (models/video_task.py).                            *)
(*                                                                         *)
(* The application is a single-threaded Qt program.  Signals are directly  *)
(* connected, so a slot runs to completion inside emit(); one action of    *)
(* the model is therefore one GUI call or one process event TOGETHER with  *)
(* every slot it reaches (the whole synchronous chain).  What the outside  *)
(* world decides during such a chain (validation results, split results,   *)
(* whether a killed process is gone) is drawn from an oracle.              *)
(*                                                                         *)
(* A worker object is owned by the queue manager through current_worker    *)
(* only.  Once that reference is dropped the object is destroyed and its   *)
(* signals are no longer delivered; its process is killed by the QProcess  *)
(* destructor, which again waits only a bounded time, so the process may   *)
(* outlive the worker (variable orphans).                                  *)
(***************************************************************************)
EXTENDS Integers, Sequences, FiniteSets, TLC

\* ---------------------------------------------------------------- bounds
MaxTasks == 2      \* VideoTask objects ever created
MaxParts == 1      \* part files one split produces
MaxOrphans == 1    \* processes that outlived their worker object

\* ------------------------------------------------------------- constants
PENDING == "Pending"
PROCESSING == "Processing"
DONE == "Done"
ERROR == "Error"
CANCELLED == "Cancelled"

TaskIds == 1..MaxTasks
ProgressTicks == {50, 100}
\* What FFmpegWorker.start finds when it looks at its task: validation
\* rejects it ("invalid"), a process is spawned ("spawn"), or the task has
\* an enabled split spec and the split fails or succeeds.
StartResults == {"invalid", "spawn", "split_error", "split_ok"}
StopOutcomes == {"exit0", "exit_nonzero", "killed", "timeout"}
SplitModes == {"by_count", "by_duration"}

\* What the outside world decides while one operation runs: per task what
\* FFmpegWorker.start finds, the split mode, the number of part files the
\* split is expected to write and the number that materialize (the first
\* `made` of them; Choices takes all of them or none) although every split
\* command exits with code 0, whether the split spec asks for its parts to
\* be processed, and whether a process is still there after its worker
\* object was destroyed.
Oracles == [res : [TaskIds -> StartResults], mode : SplitModes,
            parts : 1..MaxParts, made : 0..MaxParts,
            process_split_parts : BOOLEAN, survive : BOOLEAN]

\* --------------------------------------------------------------- state
VARIABLES
    tasks,               \* QueueManager.tasks: the list of VideoTask objects
    current_worker,      \* QueueManager.current_worker (NoWorker = None)
    is_running,          \* QueueManager.is_running
    is_paused,           \* QueueManager.is_paused
    next_id,             \* identity of the next VideoTask object created
    files,               \* split part files that exist on disk
    orphans,             \* live processes whose worker object is gone
    emitted,             \* log of the last operation: the call that took
                         \* effect, the signals emitted, the process calls
    duration,            \* FFmpegWorker.duration of the worker under test
    output,              \* the chunk of process output it reads
    progress_updated,    \* the values it emits for that chunk
    task,                \* the VideoTask handed to validate_task
    validated,           \* what validate_task returned for it
    build_task,          \* the VideoTask handed to build_command
    cmd                  \* the command build_command returned for it

\* QueueManager.current_task_index is only ever assigned (lines 38, 64, 107
\* and 153), never read, so it is not part of the state.
queue_vars == <<tasks, current_worker, is_running, is_paused, next_id, files,
                orphans, emitted>>

\* The variables of the two pure functions that are examined on their own,
\* FFmpegWorker._parse_progress and FFmpegPythonBuilder.validate_task; the
\* queue model leaves them alone (its progress ticks and validation
\* results are drawn from ProgressTicks and the oracle).
parse_vars == <<duration, output, progress_updated>>

validate_vars == <<task, validated>>

\* The variables of FFmpegPythonBuilder.build_command examined on its own.
build_vars == <<build_task, cmd>>

vars == <<tasks, current_worker, is_running, is_paused, next_id, files, orphans,
         emitted, duration, output, progress_updated, task, validated,
         build_task, cmd>>

\* ------------------------------------------------- _parse_progress
\* Times are in hundredths of a second.  A chunk of output holds at most
\* one kind of time marker: none, one that the pattern
\* time=(\d{2}):(\d{2}):(\d{2}\.\d{2}) matches (hh, mm and ss are its three
\* groups, ss in hundredths), or one that it does not match (time=N/A, a
\* negative time); end says whether the chunk contains progress=end.
MarkerKinds == {"none", "time", "unmatched"}

NoOutput == [kind |-> "none", hh |-> 0, mm |-> 0, ss |-> 0, end |-> FALSE]

Hours == {0, 1}
Minutes == {0, 30}
Seconds == {0, 150, 5999}
Durations == {-100, 0, 100, 150, 180000, 720000}

Chunks ==
    {c \in [kind : MarkerKinds, hh : Hours, mm : Minutes, ss : Seconds,
            end : BOOLEAN] :
        c.kind # "time" => c.hh = 0 /\ c.mm = 0 /\ c.ss = 0}

\* a float that is the quotient of two integers
Float(n, d) == [num |-> n, den |-> d]

\* min(100.0, x)
min100(x) == IF x.num > 100 * x.den THEN Float(100, 1) ELSE x

\* a conversion of the time marker that is not clamped
_parse_progress_unclamped(c, d) ==
    LET time_match == c.kind = "time"
        current_time == c.hh * 360000 + c.mm * 6000 + c.ss
        first == IF time_match /\ d > 0
                 THEN <<Float(current_time * 100, d)>>
                 ELSE <<>>
    IN IF c.end THEN Append(first, Float(100, 1)) ELSE first

\* The values progress_updated carries when _parse_progress reads chunk c
\* in a worker whose duration is d.
_parse_progress(c, d) ==
    LET time_match == c.kind = "time"
        current_time == c.hh * 360000 + c.mm * 6000 + c.ss
        first == IF time_match /\ d > 0
                 THEN <<min100(Float(current_time * 100, d))>>
                 ELSE <<>>
    IN IF c.end THEN Append(first, Float(100, 1)) ELSE first

\* --------------------------------------------------- validate_task
\* Speed and volume are in hundredths.  paths_exist says whether the input
\* file and the output directory exist.  Each feature that names a file is
\* "present" (enabled, file exists), "missing" (enabled, file does not
\* exist) or "off" (not enabled or no file named; the file does not exist).
Speeds == {-100, 0, 49, 50, 100, 200, 201}
Volumes == {-1, 0, 100, 200, 201}
Crfs == {-1, 0, 23, 51, 52}
QualityModes == {"CRF", "BITRATE"}
FeatureStates == {"off", "missing", "present"}

\* the features of a task that name a file
Features ==
    {"subtitle_file", "font_path", "image_overlay", "video_overlay",
     "intro_video", "outro_video", "watermark_image"}

NoTask ==
    [paths_exist |-> TRUE, speed |-> 100, volume |-> 100, quality_mode |-> "CRF",
     crf |-> 23, subtitle_file |-> "off", font_path |-> "off",
     image_overlay |-> "off", video_overlay |-> "off", intro_video |-> "off",
     outro_video |-> "off", watermark_image |-> "off"]

\* the tasks whose ranges are examined: one file check in front of the
\* range checks (paths_exist) and one behind them (outro_video) vary
ValidatedTasks ==
    {[NoTask EXCEPT !.paths_exist = p, !.speed = sp, !.volume = vo,
                    !.quality_mode = q, !.crf = c, !.outro_video = o] :
        p \in BOOLEAN, sp \in Speeds, vo \in Volumes, q \in QualityModes,
        c \in Crfs, o \in {"off", "missing"}}

\* the tasks whose files are examined
FileTasks ==
    {t \in [paths_exist : BOOLEAN, speed : {100}, volume : {100},
            quality_mode : {"CRF"}, crf : {23}, subtitle_file : FeatureStates,
            font_path : FeatureStates, image_overlay : FeatureStates,
            video_overlay : FeatureStates, intro_video : FeatureStates,
            outro_video : FeatureStates, watermark_image : FeatureStates] : TRUE}

NotValidated == [is_valid |-> TRUE, error_msg |-> "not validated"]

Rejected(msg) == [is_valid |-> FALSE, error_msg |-> msg]

validate_speed(speed) == 50 <= speed /\ speed <= 200

validate_volume(volume) == 0 <= volume /\ volume <= 200

validate_crf(crf) == 0 <= crf /\ crf <= 51

\* a validation that looks at the CRF in every quality mode
validate_task_crf_always(t) ==
    IF ~t.paths_exist THEN Rejected("input_path")
    ELSE IF t.subtitle_file = "missing" THEN Rejected("subtitle_file")
    ELSE IF ~(50 <= t.speed /\ t.speed <= 200) THEN Rejected("Speed")
    ELSE IF ~(0 <= t.volume /\ t.volume <= 200) THEN Rejected("Volume")
    ELSE IF ~(0 <= t.crf /\ t.crf <= 51) THEN Rejected("CRF")
    ELSE IF t.font_path = "missing" THEN Rejected("font_path")
    ELSE IF t.image_overlay = "missing" THEN Rejected("image_overlay")
    ELSE IF t.video_overlay = "missing" THEN Rejected("video_overlay")
    ELSE IF t.intro_video = "missing" THEN Rejected("intro_video")
    ELSE IF t.outro_video = "missing" THEN Rejected("outro_video")
    ELSE [is_valid |-> TRUE, error_msg |-> ""]

\* FFmpegPythonBuilder.validate_task; the message of a missing file is the
\* name of the field that names it.
validate_task(t) ==
    IF ~t.paths_exist THEN Rejected("input_path")
    ELSE IF t.subtitle_file = "missing" THEN Rejected("subtitle_file")
    ELSE IF ~(50 <= t.speed /\ t.speed <= 200) THEN Rejected("Speed")
    ELSE IF ~(0 <= t.volume /\ t.volume <= 200) THEN Rejected("Volume")
    ELSE IF t.quality_mode = "CRF" /\ ~(0 <= t.crf /\ t.crf <= 51)
    THEN Rejected("CRF")
    ELSE IF t.font_path = "missing" THEN Rejected("font_path")
    ELSE IF t.image_overlay = "missing" THEN Rejected("image_overlay")
    ELSE IF t.video_overlay = "missing" THEN Rejected("video_overlay")
    ELSE IF t.intro_video = "missing" THEN Rejected("intro_video")
    ELSE IF t.outro_video = "missing" THEN Rejected("outro_video")
    ELSE [is_valid |-> TRUE, error_msg |-> ""]

\* --------------------------------------------------- build_command
\* Times are in tenths of a second, speed and volume in hundredths.  None
\* is Python's None of an Optional number.
None == -1

BuildDurations == {0, 600}
TrimStarts == {None, 50}
TrimEnds == {None, 300}
CutsFromEnd == {None, 100, 700}
BuildSpeeds == {50, 100, 500}
BuildVolumes == {100, 150}
StackModes == {"hstack", "vstack"}
StackTypes == {"file", "folder"}

\* the speeds whose audio tempo chain is examined
TempoSpeeds ==
    {1, 10, 24, 25, 26, 49, 50, 51, 75, 99, 100, 101, 150, 199, 200, 201, 399,
     400, 401, 500, 799, 800, 801, 1000, 1600, 1601, 3200, 10000}

\* the videos of the stacking folder and what get_video_info says of them
stack_folder == [a |-> 300, b |-> 600]

\* VideoTask.stack_settings and VideoTask.background_frame of a new task
stack_settings_default == "none"

background_frame_default == FALSE

\* The fields build_command reads.  scale, crop, text_settings and
\* subtitle_file say whether the field is set (the text is active), the
\* overlay and the background frame whether it is enabled with its file in
\* place; watermark_text is watermark_type = TEXT with a text.
DefaultTask ==
    [duration |-> 0, trim_start |-> None, trim_end |-> None,
     cut_from_end |-> None, speed |-> 100, volume |-> 100, scale |-> FALSE,
     crop |-> FALSE, watermark_text |-> FALSE, text_settings |-> FALSE,
     subtitle_file |-> FALSE, image_overlay |-> FALSE,
     background_frame |-> background_frame_default,
     stack_mode |-> stack_settings_default, stack_type |-> "file"]

BuildTasks ==
    {t \in [duration : BuildDurations, trim_start : TrimStarts,
            trim_end : TrimEnds, cut_from_end : CutsFromEnd,
            speed : BuildSpeeds, volume : BuildVolumes, scale : BOOLEAN,
            crop : BOOLEAN, watermark_text : BOOLEAN, text_settings : BOOLEAN,
            subtitle_file : BOOLEAN, image_overlay : BOOLEAN,
            background_frame : BOOLEAN,
            stack_mode : StackModes \cup {stack_settings_default},
            stack_type : StackTypes] :
        t.stack_mode = stack_settings_default => t.stack_type = "file"}
    \cup {[DefaultTask EXCEPT !.speed = sp, !.volume = vo] :
            sp \in TempoSpeeds, vo \in BuildVolumes}

NoCmd ==
    [pipeline |-> "none", ss |-> None, to |-> None, t |-> None,
     video |-> <<>>, audio |-> <<>>, stack_inputs |-> <<>>,
     stream_loop |-> FALSE]

\* Python's truth value of an Optional number
Truthy(x) == x # None /\ x # 0

max(a, b) == IF a >= b THEN a ELSE b

Stage(name, value) == [filter |-> name, value |-> value]

\* _apply_video_filters (skip_text is False at both calls)
_apply_video_filters(t) ==
    (IF t.scale THEN <<"scale">> ELSE <<>>)
    \o (IF t.crop THEN <<"crop">> ELSE <<>>)
    \o (IF t.speed # 100 THEN <<"setpts">> ELSE <<>>)
    \o (IF t.text_settings THEN <<"drawtext">> ELSE <<>>)
    \o (IF t.subtitle_file THEN <<"subtitles">> ELSE <<>>)

\* the two while loops of _apply_audio_filters and the remainder stage
RECURSIVE atempo(_)
atempo(speed) ==
    IF speed.num > 2 * speed.den
    THEN <<Stage("atempo", Float(2, 1))>>
         \o atempo(Float(speed.num, speed.den * 2))
    ELSE IF 2 * speed.num < speed.den
    THEN <<Stage("atempo", Float(1, 2))>>
         \o atempo(Float(speed.num * 2, speed.den))
    ELSE IF speed.num # speed.den
    THEN <<Stage("atempo", speed)>>
    ELSE <<>>

\* an audio chain that hands the whole speed to one atempo stage
_apply_audio_filters_one_stage(t) ==
    (IF t.volume # 100 THEN <<Stage("volume", Float(t.volume, 100))>> ELSE <<>>)
    \o (IF t.speed # 100 THEN <<Stage("atempo", Float(t.speed, 100))>> ELSE <<>>)

_apply_audio_filters(t) ==
    (IF t.volume # 100 THEN <<Stage("volume", Float(t.volume, 100))>> ELSE <<>>)
    \o (IF t.speed # 100 THEN atempo(Float(t.speed, 100)) ELSE <<>>)

\* input_kwargs of both pipelines
input_ss(t) == t.trim_start

\* an input end that knows the absolute trim end only
input_to_trim_end_only(t) == t.trim_end

input_to(t) ==
    IF t.cut_from_end # None /\ t.duration > 0
    THEN max(0, t.duration - t.cut_from_end)
    ELSE t.trim_end

_build_standard(t) ==
    [pipeline |-> "standard", ss |-> input_ss(t), to |-> input_to(t),
     t |-> None, video |-> _apply_video_filters(t),
     audio |-> _apply_audio_filters(t), stack_inputs |-> <<>>,
     stream_loop |-> FALSE]

_needs_overlay(t) ==
    t.image_overlay \/ t.stack_mode # "none" \/ t.background_frame

\* the duration the stacking code works out, before it is made positive
target_duration(t) ==
    LET cut == IF Truthy(t.cut_from_end) THEN t.duration - t.cut_from_end
               ELSE t.duration
        trimmed == IF Truthy(t.trim_start) THEN cut - t.trim_start ELSE cut
    IN IF Truthy(t.trim_end)
       THEN t.trim_end - (IF Truthy(t.trim_start) THEN t.trim_start ELSE 0)
       ELSE trimmed

\* The selections the folder loop can end with: random.choice picks files
\* until their durations reach the target.
RECURSIVE selected_files(_, _, _)
selected_files(selected, current_duration, target) ==
    IF current_duration < target
    THEN UNION {selected_files(Append(selected, f),
                               current_duration + stack_folder[f], target) :
                    f \in DOMAIN stack_folder}
    ELSE {selected}

\* the inputs of the stacked stream, one sequence per outcome of the choice
stack_inputs(t) ==
    IF t.stack_mode = "none" THEN {<<>>}
    ELSE IF t.stack_type = "file" THEN {<<"stack_path">>}
    ELSE selected_files(<<>>, 0, max(1, target_duration(t)))

\* the video chain of the main stream in the complex pipeline
main_video(t) ==
    (IF t.background_frame
     THEN <<"scale_to_background", "overlay_background">>
          \o (IF t.text_settings THEN <<"drawtext">> ELSE <<>>)
          \o (IF t.subtitle_file THEN <<"subtitles">> ELSE <<>>)
     ELSE _apply_video_filters(t))
    \o (IF t.image_overlay THEN <<"overlay">> ELSE <<>>)
    \o (IF t.stack_mode # "none" THEN <<t.stack_mode>> ELSE <<>>)

\* output_kwargs['t']
output_t(t) ==
    IF t.stack_mode # "none" /\ target_duration(t) > 0
    THEN target_duration(t) ELSE None

\* the commands _build_with_overlay can return
_build_with_overlay(t) ==
    {[pipeline |-> "complex", ss |-> input_ss(t), to |-> input_to(t),
      t |-> output_t(t), video |-> main_video(t),
      audio |-> _apply_audio_filters(t), stack_inputs |-> inputs,
      stream_loop |-> t.stack_mode # "none" /\ t.stack_type = "file"] :
        inputs \in stack_inputs(t)}

\* the commands build_command can return for a task
build_commands(t) ==
    IF _needs_overlay(t) THEN _build_with_overlay(t) ELSE {_build_standard(t)}

\* ------------------------------------------------------------ VideoTask
intermediate_file_default == 0

\* the k-th part file that the split of task id writes
part_file(id, k) == id * (MaxParts + 1) + k

VideoTask(id, part) ==
    [id |-> id, status |-> PENDING, progress |-> 0, error_message |-> "",
     intermediate_file |-> part]

reset(t) == [t EXCEPT !.status = PENDING, !.progress = 0, !.error_message = ""]

\* set_error that keeps the progress reached so far
set_error_keeps_progress(t) == [t EXCEPT !.status = ERROR, !.error_message = "msg"]

\* set_error(message); of the message the task keeps only that there is one
\* ("msg"), the log entry of the signal carries its kind.
set_error(t) == [t EXCEPT !.status = ERROR, !.error_message = "msg", !.progress = 0]

set_processing(t) == [t EXCEPT !.status = PROCESSING, !.progress = 0, !.error_message = ""]

set_done(t) == [t EXCEPT !.status = DONE, !.progress = 100, !.error_message = ""]

is_processing(t) == t.status = PROCESSING

\* --------------------------------------------------------- FFmpegWorker
NoWorker == [task |-> 0, file |-> 0, process |-> "none", is_running |-> FALSE]

\* The worker of task object t; it keeps the object (self.task), and so do
\* the lambdas connected to its signals, also when the queue has dropped it.
FFmpegWorker(t) ==
    [task |-> t.id, file |-> t.intermediate_file, process |-> "none",
     is_running |-> FALSE]

\* ------------------------------------------------------------- helpers
\* A log entry; msg is the kind of error message a failure signal carries.
SigMsg(name, id, msg) == [sig |-> name, task |-> id, msg |-> msg]

Sig(name, id) == SigMsg(name, id, "")

Emit(s, name, id) == [s EXCEPT !.emitted = Append(@, Sig(name, id))]

EmitMsg(s, name, id, msg) == [s EXCEPT !.emitted = Append(@, SigMsg(name, id, msg))]

InQueue(ts, id) == \E i \in DOMAIN ts : ts[i].id = id

TaskOf(ts, id) == ts[CHOOSE i \in DOMAIN ts : ts[i].id = id]

\* The task object id with its fields replaced by those of t.
SetTask(s, id, t) ==
    [s EXCEPT !.tasks = [i \in DOMAIN s.tasks |->
        IF s.tasks[i].id = id THEN t ELSE s.tasks[i]]]

SetWorker(s, running, proc) ==
    [s EXCEPT !.current_worker = [@ EXCEPT !.is_running = running, !.process = proc]]

State ==
    [tasks |-> tasks, current_worker |-> current_worker, is_running |-> is_running,
     is_paused |-> is_paused, next_id |-> next_id, files |-> files,
     orphans |-> orphans, emitted |-> <<>>,
     overflow |-> FALSE]

Commit(s) ==
    /\ ~s.overflow
    /\ tasks' = s.tasks
    /\ current_worker' = s.current_worker
    /\ is_running' = s.is_running
    /\ is_paused' = s.is_paused
    /\ next_id' = s.next_id
    /\ files' = s.files
    /\ orphans' = s.orphans
    /\ emitted' = s.emitted
    /\ UNCHANGED <<parse_vars, validate_vars, build_vars>>

\* The queue manager lets go of its worker (deleteLater + None, or the
\* reference is overwritten).  A process that is still running is killed by
\* the destructor; oc.survive says whether it is still there afterwards.
DropWorker(s, oc) ==
    LET w == s.current_worker
        left == w.task # 0 /\ w.process = "running" /\ oc.survive
                /\ s.orphans < MaxOrphans
    IN [s EXCEPT !.current_worker = NoWorker,
                 !.orphans = IF left THEN @ + 1 ELSE @]

\* The oracles that can make a difference in state s when the operation
\* scans for a Pending task at most `scans` times: results only for tasks a
\* scan can start (Pending ones in list order, then part tasks a split may
\* add), none behind the task at which the last scan stops (a spawned
\* process ends the synchronous chain), a split only for tasks that are
\* not themselves split parts (their split spec is None), split choices
\* only if the split commands succeed, the mode only if the part files
\* are missing (then the number of parts expected makes no difference,
\* and with no part file there is nothing to process either), survive only
\* if a process is running.
Choices(s, scans) ==
    LET scan == s.is_running /\ ~s.is_paused
        pend == IF scan
                THEN SelectSeq(s.tasks, LAMBDA t : t.status = PENDING)
                ELSE <<>>
        new  == IF \E i \in DOMAIN pend : pend[i].intermediate_file = 0
                THEN s.next_id..MaxTasks ELSE {}
        orig == {pend[i].id : i \in {j \in DOMAIN pend : pend[j].intermediate_file = 0}}
        cand == {pend[i].id : i \in DOMAIN pend} \cup new
        \* position of a candidate in the order the scans meet them
        Pos(id) == IF id \in new THEN Len(pend) + id
                   ELSE CHOOSE i \in DOMAIN pend : pend[i].id = id
        R == {r \in [TaskIds -> StartResults] :
                \A id \in TaskIds :
                   /\ id \notin cand => r[id] = "spawn"
                   /\ id \notin orig => r[id] \in {"invalid", "spawn"}
                   /\ id \in cand /\ r[id] # "spawn" =>
                        Cardinality({o \in cand : Pos(o) < Pos(id) /\ r[o] = "spawn"})
                            < scans}
        V == IF s.current_worker.process = "running" THEN BOOLEAN ELSE {FALSE}
    IN UNION {
         IF \E id \in TaskIds : r[id] = "split_ok"
         THEN {o \in [res : {r}, mode : SplitModes, parts : 1..MaxParts,
                        made : 0..MaxParts, process_split_parts : BOOLEAN,
                        survive : V] :
                  /\ o.made \in {0, o.parts}
                  /\ o.made = o.parts => o.mode = "by_count"
                  /\ o.made = 0 => o.parts = 1 /\ ~o.process_split_parts}
         ELSE {[res |-> r, mode |-> "by_count", parts |-> 1, made |-> 1,
                process_split_parts |-> FALSE, survive |-> v] : v \in V}
         : r \in R}

\* ------------------------------------------------ QueueManager handlers
RECURSIVE _process_next_task(_, _), _start_task(_, _, _), worker_start(_, _, _),
          _process_split_task(_, _, _), _on_task_completed(_, _, _),
          _on_task_failed(_, _, _, _)

_on_task_progress(s, id, p) ==
    Emit(SetTask(s, id, [TaskOf(s.tasks, id) EXCEPT !.progress = p]),
         "task_progress", id)

add_task_to(s, t) == [s EXCEPT !.tasks = Append(@, t)]

\* The worker hands over the tasks it cloned, in order, for the part files
\* split_files of its split.
_on_split_parts_created(s, split_files) ==
    LET RECURSIVE AddParts(_, _)
        AddParts(st, k) ==
            IF k > Len(split_files) THEN st
            ELSE AddParts(
                   Emit([add_task_to(st, VideoTask(st.next_id, split_files[k]))
                            EXCEPT !.next_id = @ + 1],
                        "task_added", st.next_id),
                   k + 1)
    IN AddParts(s, 1)

\* a scan that takes the last Pending task of the list
_process_next_task_last(s, oc) ==
    IF s.is_paused \/ ~s.is_running THEN s
    ELSE LET pend == {i \in DOMAIN s.tasks : s.tasks[i].status = PENDING}
         IN IF pend = {}
            THEN Emit([s EXCEPT !.is_running = FALSE], "queue_completed", 0)
            ELSE LET i == CHOOSE j \in pend : \A k \in pend : j >= k
                 IN _start_task(s, s.tasks[i].id, oc)

_process_next_task(s, oc) ==
    IF s.is_paused \/ ~s.is_running THEN s
    ELSE LET pend == {i \in DOMAIN s.tasks : s.tasks[i].status = PENDING}
         IN IF pend = {}
            THEN Emit([s EXCEPT !.is_running = FALSE], "queue_completed", 0)
            ELSE LET i == CHOOSE j \in pend : \A k \in pend : j <= k
                 IN _start_task(s, s.tasks[i].id, oc)

_start_task(s, id, oc) ==
    LET s1 == Emit(SetTask(s, id, set_processing(TaskOf(s.tasks, id))), "task_started", id)
        s2 == [DropWorker(s1, oc) EXCEPT
                  !.current_worker = FFmpegWorker(TaskOf(s1.tasks, id))]
    IN worker_start(s2, id, oc)

\* a completion handler that scans for the next task before it cleans up
_on_task_completed_cleans_last(s, id, oc) ==
    LET s1 == Emit(SetTask(s, id, set_done(TaskOf(s.tasks, id))), "task_completed", id)
        s2 == IF s1.current_worker.task # 0 THEN DropWorker(s1, oc) ELSE s1
        s3 == _process_next_task(s2, oc)
        f  == IF InQueue(s3.tasks, id) THEN TaskOf(s3.tasks, id).intermediate_file
              ELSE IF s.current_worker.task = id THEN s.current_worker.file
              ELSE intermediate_file_default
    IN IF f # 0 /\ f \in s3.files
       THEN Emit([s3 EXCEPT !.files = @ \ {f}], "unlink", id)
       ELSE s3

_on_task_completed(s, id, oc) ==
    LET s1 == Emit(SetTask(s, id, set_done(TaskOf(s.tasks, id))), "task_completed", id)
        s2 == IF s1.current_worker.task # 0 THEN DropWorker(s1, oc) ELSE s1
        f  == IF InQueue(s2.tasks, id) THEN TaskOf(s2.tasks, id).intermediate_file
              ELSE IF s.current_worker.task = id THEN s.current_worker.file
              ELSE intermediate_file_default
        s3 == IF f # 0 /\ f \in s2.files
              THEN Emit([s2 EXCEPT !.files = @ \ {f}], "unlink", id)
              ELSE s2
    IN _process_next_task(s3, oc)

\* a failure handler that does not scan for the next task
_on_task_failed_halts(s, id, msg, oc) ==
    LET s1 == EmitMsg(SetTask(s, id, set_error(TaskOf(s.tasks, id))),
                      "task_failed", id, msg)
    IN IF s1.current_worker.task # 0 THEN DropWorker(s1, oc) ELSE s1

_on_task_failed(s, id, msg, oc) ==
    LET s1 == EmitMsg(SetTask(s, id, set_error(TaskOf(s.tasks, id))),
                      "task_failed", id, msg)
        s2 == IF s1.current_worker.task # 0 THEN DropWorker(s1, oc) ELSE s1
    IN _process_next_task(s2, oc)

\* ------------------------------------------------ FFmpegWorker methods
\* The worker's own terminal signals, delivered to the lambdas that
\* _start_task connected for task id.
emit_task_failed(s, id, msg, oc) ==
    _on_task_failed(EmitMsg(s, "w_task_failed", id, msg), id, msg, oc)

emit_task_completed(s, id, oc) ==
    _on_task_completed(Emit(s, "w_task_completed", id), id, oc)

emit_progress_updated(s, id, p) ==
    _on_task_progress(Emit(s, "w_progress_updated", id), id, p)

\* a start that spawns the process before it looks at the validation result
worker_start_spawns_first(s, id, oc) ==
    IF oc.res[id] \in {"split_error", "split_ok"}
    THEN _process_split_task(s, id, oc)
    ELSE LET s1 == Emit(SetWorker(s, TRUE, "running"), "p_start", id)
         IN IF oc.res[id] = "invalid"
            THEN emit_task_failed(Emit(s1, "validate_task_rejected", id), id,
                                  "validation", oc)
            ELSE s1

worker_start(s, id, oc) ==
    IF oc.res[id] \in {"split_error", "split_ok"}
    THEN _process_split_task(s, id, oc)
    ELSE IF oc.res[id] = "invalid"
         THEN emit_task_failed(Emit(s, "validate_task_rejected", id), id, "validation", oc)
         ELSE Emit(SetWorker(s, TRUE, "running"), "p_start", id)

\* FFmpegSplitter.split_video for task id when no split command fails: the
\* state afterwards, whether it returned (ok) or raised, and the list of
\* part files it returned.  By count, every command is followed by a check
\* that its part file exists (_execute_command); by duration the one
\* segment command is followed by a directory listing of the part files of
\* the input.  A part file that did not materialize is noted in the log.
split_video(s, id, oc) ==
    LET made == {part_file(id, k) : k \in 1..oc.made}
        s1   == [s EXCEPT !.files = @ \cup made]
        s2   == IF oc.made < oc.parts THEN Emit(s1, "part_file_missing", id) ELSE s1
        RECURSIVE Sorted(_)
        Sorted(K) ==
            IF K = {} THEN <<>>
            ELSE LET m == CHOOSE x \in K : \A y \in K : x <= y
                 IN <<part_file(id, m)>> \o Sorted(K \ {m})
    IN IF oc.mode = "by_count"
       THEN [st |-> s2, ok |-> oc.made = oc.parts,
             output_files |-> IF oc.made = oc.parts
                              THEN [k \in 1..oc.parts |-> part_file(id, k)]
                              ELSE <<>>]
       ELSE [st |-> s2, ok |-> TRUE,
             output_files |-> Sorted({k \in 1..MaxParts : part_file(id, k) \in s2.files})]

\* the log of the part files a split returned
split_complete(s, id, output_files) ==
    LET RECURSIVE Listed(_, _)
        Listed(st, k) ==
            IF k > Len(output_files) THEN st
            ELSE Listed(Emit(st, "split_part", id), k + 1)
    IN Listed(s, 1)

\* a split that never hands its clones over to the queue
_process_split_task_keeps_clones(s, id, oc) ==
    IF oc.res[id] = "split_error"
    THEN emit_task_failed(Emit(SetWorker(s, FALSE, "none"), "split_failed", id),
                          id, "Split failed", oc)
    ELSE LET r == split_video(SetWorker(s, TRUE, "none"), id, oc)
         IN IF ~r.ok
            THEN emit_task_failed(
                     Emit(SetWorker(r.st, FALSE, "none"), "split_failed", id),
                     id, "Split failed", oc)
            ELSE LET s1 == split_complete(r.st, id, r.output_files)
                     s2 == emit_progress_updated(s1, id, 100)
                     s3 == IF oc.process_split_parts
                           THEN Emit(s2, "create_split_part_tasks", id)
                           ELSE s2
                 IN emit_task_completed(SetWorker(s3, FALSE, "none"), id, oc)

_process_split_task(s, id, oc) ==
    IF oc.res[id] = "split_error"
    THEN emit_task_failed(Emit(SetWorker(s, FALSE, "none"), "split_failed", id),
                          id, "Split failed", oc)
    ELSE LET r == split_video(SetWorker(s, TRUE, "none"), id, oc)
         IN IF ~r.ok
            THEN emit_task_failed(
                     Emit(SetWorker(r.st, FALSE, "none"), "split_failed", id),
                     id, "Split failed", oc)
            ELSE LET s1 == split_complete(r.st, id, r.output_files)
                     s2 == emit_progress_updated(s1, id, 100)
                     s3 == IF oc.process_split_parts
                           THEN LET s4 == Emit(s2, "create_split_part_tasks", id)
                                    n  == Len(r.output_files)
                                IN IF n = 0 THEN s4
                                   ELSE IF s4.next_id + n - 1 > MaxTasks
                                   THEN [s4 EXCEPT !.overflow = TRUE]
                                   ELSE _on_split_parts_created(
                                            Emit(s4, "w_split_parts_created", id),
                                            r.output_files)
                           ELSE s2
                 IN emit_task_completed(SetWorker(s3, FALSE, "none"), id, oc)

\* The outcomes of FFmpegWorker.stop that differ for worker w.
Outcomes(w) ==
    IF w.process # "none" /\ w.is_running THEN StopOutcomes ELSE {"timeout"}

\* QProcess.finished -> FFmpegWorker._on_finished
_on_finished(s, id, code, oc) ==
    IF code = 0 THEN emit_task_completed(s, id, oc)
    ELSE emit_task_failed(s, id, "exit code", oc)

\* QProcess.errorOccurred -> FFmpegWorker._on_process_error; running is the
\* worker's is_running flag when the signal arrives.
_on_process_error(s, id, running, oc) ==
    IF ~running THEN s ELSE emit_task_failed(s, id, "process error", oc)

\* a stop that kills at once, without asking the process to terminate
worker_stop_kills_first(s, out, oc) ==
    LET w == s.current_worker
    IN IF w.process # "none" /\ w.is_running
       THEN LET s1 == Emit(SetWorker(s, FALSE, w.process), "p_kill", w.task)
            IN IF out = "timeout" THEN s1
               ELSE _on_finished(
                        Emit(SetWorker(s1, FALSE, "finished"), "p_finished", w.task),
                        w.task, 1, oc)
       ELSE s

\* FFmpegWorker.stop on the current worker; out is what the process does
\* during the two bounded waits: it exits within the graceful wait (with
\* code 0 or not), it exits within the wait after the kill, or it is still
\* there when both waits have expired.  waitForFinished delivers finished.
worker_stop(s, out, oc) ==
    LET w == s.current_worker
    IN IF w.process # "none" /\ w.is_running
       THEN LET s1 == Emit(SetWorker(s, FALSE, w.process), "p_terminate", w.task)
                Exit(st, code) ==
                    _on_finished(
                        Emit(SetWorker(st, FALSE, "finished"), "p_finished", w.task),
                        w.task, code, oc)
            IN CASE out = "exit0" -> Exit(s1, 0)
                 [] out = "exit_nonzero" -> Exit(s1, 1)
                 [] out = "killed" -> Exit(Emit(s1, "p_kill", w.task), 1)
                 [] OTHER -> Emit(s1, "p_kill", w.task)
       ELSE s

\* a total that counts Done tasks only
total_progress_done_only(ts) ==
    LET RECURSIVE total(_)
        total(k) ==
            IF k = 0 THEN 0
            ELSE total(k - 1) + (IF ts[k].status = DONE THEN 100 ELSE 0)
    IN IF ts = <<>> THEN [num |-> 0, den |-> 1]
       ELSE [num |-> total(Len(ts)), den |-> Len(ts)]

\* QueueManager.total_progress of the task list ts: the quotient
\* total / len(tasks) as the fraction num/den (0.0 is 0/1).
total_progress(ts) ==
    LET RECURSIVE total(_)
        total(k) ==
            IF k = 0 THEN 0
            ELSE total(k - 1)
                 + (IF ts[k].status = DONE THEN 100
                    ELSE IF ts[k].status = PROCESSING THEN ts[k].progress
                    ELSE 0)
    IN IF ts = <<>> THEN [num |-> 0, den |-> 1]
       ELSE [num |-> total(Len(ts)), den |-> Len(ts)]

\* -------------------------------------------------------------- Init
QueueInit ==
    /\ tasks = <<>>
    /\ current_worker = NoWorker
    /\ is_running = FALSE
    /\ is_paused = FALSE
    /\ next_id = 1
    /\ files = {}
    /\ orphans = 0
    /\ emitted = <<>>

\* no output has been read
ParseIdle ==
    /\ duration = 0
    /\ output = NoOutput
    /\ progress_updated = <<>>

\* no task has been validated
ValidateIdle ==
    /\ task = NoTask
    /\ validated = NotValidated

\* no command has been built
BuildIdle ==
    /\ build_task = DefaultTask
    /\ cmd = NoCmd

Init == QueueInit /\ ParseIdle /\ ValidateIdle /\ BuildIdle

\* ------------------------------------------------- QueueManager actions
\* The GUI creates a VideoTask and calls add_task.
add_task ==
    /\ next_id <= MaxTasks
    /\ Commit([add_task_to(State, VideoTask(next_id, intermediate_file_default))
                  EXCEPT !.next_id = @ + 1])

clear_tasks ==
    Commit(IF ~is_running
           THEN [State EXCEPT !.tasks = <<>>]
           ELSE State)

remove_task(id) ==
    Commit(IF InQueue(tasks, id) /\ ~is_processing(TaskOf(tasks, id))
           THEN [State EXCEPT !.tasks = SelectSeq(@, LAMBDA t : t.id # id)]
           ELSE State)

start_from(s, oc) ==
    IF s.is_running \/ s.tasks = <<>> THEN s
    ELSE _process_next_task(
             Emit(Emit([s EXCEPT !.is_running = TRUE, !.is_paused = FALSE],
                       "start", 0),
                  "queue_started", 0),
             oc)

start ==
    \E oc \in Choices([State EXCEPT !.is_running = TRUE, !.is_paused = FALSE], 1) :
        Commit(start_from(State, oc))

\* a pause that stops the worker without setting is_paused
pause_without_flag ==
    \E oc \in Choices(State, 1), out \in Outcomes(current_worker) :
        LET s1 == Emit(Emit(State, "pause", 0), "queue_paused", 0)
            w  == current_worker
        IN Commit(IF w.task # 0 THEN worker_stop(s1, out, oc) ELSE s1)

pause ==
    \E oc \in Choices([State EXCEPT !.is_paused = TRUE], 1), out \in Outcomes(current_worker) :
        LET s1 == Emit(Emit([State EXCEPT !.is_paused = TRUE], "pause", 0),
                       "queue_paused", 0)
            w  == current_worker
        IN Commit(IF w.task # 0 THEN worker_stop(s1, out, oc) ELSE s1)

resume ==
    \E oc \in Choices([State EXCEPT !.is_paused = ~is_paused], 1) :
        Commit(IF ~is_paused THEN State
               ELSE _process_next_task(
                        Emit(Emit([State EXCEPT !.is_paused = FALSE], "resume", 0),
                             "queue_started", 0),
                        oc))

\* a stop that also puts Error tasks back to Pending
stop_resets_errors ==
    \E oc \in Choices([State EXCEPT !.is_running = FALSE], 1), out \in Outcomes(current_worker) :
        LET s1 == Emit([State EXCEPT !.is_running = FALSE, !.is_paused = FALSE],
                       "stop", 0)
            s2 == IF s1.current_worker.task # 0
                  THEN LET s3 == worker_stop(s1, out, oc)
                       IN IF s3.current_worker.task # 0 THEN DropWorker(s3, oc)
                          ELSE s3
                  ELSE s1
        IN Commit([s2 EXCEPT !.tasks = [i \in DOMAIN @ |->
                      IF is_processing(@[i]) \/ @[i].status = ERROR THEN reset(@[i]) ELSE @[i]]])

stop ==
    \E oc \in Choices([State EXCEPT !.is_running = FALSE], 1), out \in Outcomes(current_worker) :
        LET s1 == Emit([State EXCEPT !.is_running = FALSE, !.is_paused = FALSE],
                       "stop", 0)
            s2 == IF s1.current_worker.task # 0
                  THEN LET s3 == worker_stop(s1, out, oc)
                       IN IF s3.current_worker.task # 0 THEN DropWorker(s3, oc)
                          ELSE s3
                  ELSE s1
        IN Commit([s2 EXCEPT !.tasks = [i \in DOMAIN @ |->
                      IF is_processing(@[i]) THEN reset(@[i]) ELSE @[i]]])

\* the environment's choices that a retry_task(id) call can meet
RetryChoices(id) ==
    Choices([SetTask(State, id, reset(TaskOf(tasks, id)))
                EXCEPT !.is_running = TRUE, !.is_paused = is_running /\ is_paused], 1)

\* a retry that does not look at the task's status
retry_from_any_status(s, id, oc) ==
    IF InQueue(s.tasks, id)
    THEN LET s1 == Emit(SetTask(s, id, reset(TaskOf(s.tasks, id))), "retry_task", id)
         IN IF ~s1.is_running THEN start_from(s1, oc) ELSE s1
    ELSE s

retry_from(s, id, oc) ==
    IF InQueue(s.tasks, id) /\ TaskOf(s.tasks, id).status = ERROR
    THEN LET s1 == Emit(SetTask(s, id, reset(TaskOf(s.tasks, id))), "retry_task", id)
         IN IF ~s1.is_running THEN start_from(s1, oc) ELSE s1
    ELSE s

retry_task(id) ==
    \E oc \in RetryChoices(id) : Commit(retry_from(State, id, oc))

\* ---------------------------------------- events of the worker's process
\* readyRead -> _on_stdout -> _parse_progress finds a progress marker.
process_output ==
    /\ current_worker.process = "running"
    /\ \E p \in ProgressTicks :
         Commit(emit_progress_updated(State, current_worker.task, p))

\* The process exits by itself: finished(exit_code, NormalExit).
process_finished ==
    /\ current_worker.process = "running"
    /\ \E oc \in Choices(State, 1), code \in {0, 1} :
         Commit(_on_finished(Emit(SetWorker(State, FALSE, "finished"),
                                  "p_finished", current_worker.task),
                             current_worker.task, code, oc))

\* The process dies from a signal: errorOccurred(Crashed) and then
\* finished(exit_code, CrashExit) with a non-zero exit code, both emitted
\* by the same QProcess step.  When the first handler ran _on_task_failed
\* the worker object, and its QProcess with it, is released while the
\* QProcess is still emitting: whether finished then reaches _on_finished
\* is not defined, so both outcomes are kept.
process_crashed ==
    /\ current_worker.process = "running"
    /\ \E oc \in Choices(State, 2), delivered \in BOOLEAN :
         LET w  == current_worker
             s1 == _on_process_error(Emit(SetWorker(State, FALSE, "finished"),
                                          "p_errorOccurred_Crashed", w.task),
                                     w.task, w.is_running, oc)
         IN /\ ~w.is_running => delivered
            /\ Commit(IF delivered
                      THEN _on_finished(Emit(s1, "p_finished", w.task), w.task, 1, oc)
                      ELSE s1)

\* The executable cannot be launched: errorOccurred(FailedToStart) only.
process_failed_to_start ==
    /\ current_worker.process = "running"
    /\ \E oc \in Choices(State, 1) :
         LET w == current_worker
         IN Commit(_on_process_error(Emit(SetWorker(State, FALSE, "finished"),
                                          "p_errorOccurred_FailedToStart", w.task),
                                     w.task, w.is_running, oc))

\* A process whose worker object is gone finally exits; nobody is told.
orphan_exit ==
    /\ orphans > 0
    /\ Commit([State EXCEPT !.orphans = @ - 1])

Next ==
    \/ add_task
    \/ clear_tasks
    \/ \E id \in TaskIds : remove_task(id)
    \/ start
    \/ pause
    \/ resume
    \/ stop
    \/ \E id \in TaskIds : retry_task(id)
    \/ process_output
    \/ process_finished
    \/ process_crashed
    \/ process_failed_to_start
    \/ orphan_exit

Spec == Init /\ [][Next]_vars

\* ------------------------------------------------------------ typing
TypeOK ==
    /\ \A i \in DOMAIN tasks :
         /\ tasks[i].id \in TaskIds
         /\ tasks[i].status \in {PENDING, PROCESSING, DONE, ERROR}
         /\ tasks[i].progress \in 0..100
    /\ current_worker.task \in 0..MaxTasks
    /\ orphans \in 0..MaxOrphans
    /\ is_running \in BOOLEAN /\ is_paused \in BOOLEAN

\* ------------------------------------------------- derived observations
StatusOf(id) == TaskOf(tasks, id).status

ProcessingTasks == {i \in DOMAIN tasks : tasks[i].status = PROCESSING}

\* tasks for which the operation named signal sig, in emission order
Signalled(e, sig) == SelectSeq(e, LAMBDA x : x.sig = sig)

Has(e, sig, id) == \E i \in DOMAIN e : e[i].sig = sig /\ e[i].task = id

\* number of live transcoder processes
AliveProcesses == orphans + (IF current_worker.process = "running" THEN 1 ELSE 0)

\* ---------------------------------------------------------------- C1
\* C1: in every reachable state at most one task of the queue has status
\* Processing.
C1_AtMostOneProcessing == Cardinality(ProcessingTasks) <= 1

\* the operation whose log is e
Called(e, op) == e # <<>> /\ e[1].sig = op

\* tasks that were started during the operation whose log is e
Started(e) == {e[i].task : i \in {j \in DOMAIN e : e[j].sig = "task_started"}}

IndexOf(ts, id) == CHOOSE i \in DOMAIN ts : ts[i].id = id

\* No task in front of task id is Pending.  Within one operation statuses
\* only leave Pending after the call itself and new tasks go to the end of
\* the list, so this holds after the operation iff it held at the start.
FirstPending(id) ==
    /\ InQueue(tasks, id)
    /\ \A k \in DOMAIN tasks : k < IndexOf(tasks, id) => tasks[k].status # PENDING

\* Was the queue running and not paused when entry i of the log was
\* written?  During one operation only queue_completed clears is_running.
RunningAt(i) ==
    IF \E j \in DOMAIN emitted : j > i /\ emitted[j].sig = "queue_completed"
    THEN TRUE
    ELSE IF \E j \in DOMAIN emitted : j < i /\ emitted[j].sig = "queue_completed"
         THEN FALSE
         ELSE is_running /\ ~is_paused

\* ---------------------------------------------------------------- C2
\* C2: no two transcoder processes are alive at the same time: when a
\* process is spawned every process spawned before has exited, also after
\* a pause() or stop() whose bounded termination wait expired.
C2_NoTwoProcessesAlive == AliveProcesses <= 1

\* ---------------------------------------------------------------- C3
\* C3: when stop() returns, every task that was Processing when stop() was
\* called is still in the queue with status Pending and progress 0, ready
\* for the Pending scan of a following start().
C3_StopResetsProcessing ==
    [][Called(emitted', "stop") =>
         \A i \in DOMAIN tasks :
            tasks[i].status = PROCESSING =>
               /\ i \in DOMAIN tasks'
               /\ tasks'[i].id = tasks[i].id
               /\ tasks'[i].status = PENDING
               /\ tasks'[i].progress = 0]_vars

\* ---------------------------------------------------------------- C4
\* C4: in every reachable state a Done task has progress 100 and an Error
\* task has progress 0, whatever order ticks, completions and failures
\* arrive in.
C4_StatusProgressConsistent ==
    \A i \in DOMAIN tasks :
       /\ tasks[i].status = DONE => tasks[i].progress = 100
       /\ tasks[i].status = ERROR => tasks[i].progress = 0

\* a task has just failed while another one is Done
C4_Witness ==
    \E i, j \in DOMAIN tasks :
       /\ tasks[i].status = DONE
       /\ tasks[j].status = ERROR
       /\ Has(emitted, "task_failed", tasks[j].id)

\* ---------------------------------------------------------------- C5
\* C5: a worker run ends in exactly one terminal outcome: during one
\* operation the worker of a task never emits task_completed or
\* task_failed more than once in total.
C5_OneTerminalSignal ==
    \A id \in TaskIds :
       Cardinality({i \in DOMAIN emitted :
                       /\ emitted[i].sig \in {"w_task_completed", "w_task_failed"}
                       /\ emitted[i].task = id}) <= 1

\* ---------------------------------------------------------------- C6
\* C6: failures never halt the queue: when a task fails while the queue is
\* running and not paused, the task ends with status Error and the next
\* thing the queue does is start the first Pending task, or report
\* completion when no task is Pending.
C6_FailureAdvances ==
    \A i \in DOMAIN emitted :
       emitted[i].sig = "task_failed" /\ RunningAt(i) =>
          /\ InQueue(tasks, emitted[i].task)
          /\ StatusOf(emitted[i].task) = ERROR
          /\ i < Len(emitted)
          /\ \/ /\ emitted[i + 1].sig = "task_started"
                /\ FirstPending(emitted[i + 1].task)
             \/ /\ emitted[i + 1].sig = "queue_completed"
                /\ \A k \in DOMAIN tasks : tasks[k].status # PENDING

\* a failure in a running queue was followed by the start of the next task
C6_Witness ==
    \E i \in DOMAIN emitted :
       /\ emitted[i].sig = "task_failed"
       /\ RunningAt(i)
       /\ i < Len(emitted)
       /\ emitted[i + 1].sig = "task_started"
       /\ emitted[i + 1].task # emitted[i].task

PauseFrame ==
    Called(emitted', "pause") =>
       /\ Len(tasks') = Len(tasks)
       /\ \A i \in DOMAIN tasks :
             tasks[i].id # current_worker.task =>
                /\ tasks'[i].id = tasks[i].id
                /\ tasks'[i].status = tasks[i].status

\* C8 as stated: pause() leaves every task but the running one alone, and
\* from pause() until the next resume() or stop() no task becomes
\* Processing.
C8_NoStartUntilResumeOrStop ==
    [][/\ PauseFrame
       /\ (is_paused \/ Called(emitted', "pause")) /\ Started(emitted') # {} =>
             Called(emitted', "resume") \/ Called(emitted', "stop")]_vars

\* C8: pause() leaves every task but the running one alone, and while the
\* queue is paused a task becomes Processing only by resume(), or by
\* start() on a queue that is not running, called directly or through
\* retry_task; no worker event starts one.
C8_PausedStartsOnlyByResumeOrStart ==
    [][/\ PauseFrame
       /\ (is_paused \/ Called(emitted', "pause")) /\ Started(emitted') # {} =>
             \/ Called(emitted', "resume")
             \/ /\ ~is_running
                /\ Called(emitted', "start") \/ Called(emitted', "retry_task")]_vars

\* a worker event arrived in a paused queue and a Pending task stayed Pending
C8_Witness ==
    /\ is_paused
    /\ is_running
    /\ ~Called(emitted, "pause")
    /\ \E i \in DOMAIN emitted : emitted[i].sig \in {"task_completed", "task_failed"}
    /\ \E k \in DOMAIN tasks : tasks[k].status = PENDING

\* ---------------------------------------------------------------- C9
\* C9: when pause() has stopped the worker of a task and resume() is called
\* next, the scan of resume() starts that task again.
C9_ResumeRestartsInterrupted ==
    [][Called(emitted, "pause") /\ Called(emitted', "resume") =>
         \A id \in TaskIds :
            Has(emitted, "p_terminate", id) => Has(emitted', "task_started", id)]_vars

\* --------------------------------------------------------------- C10
\* C10: retry_task acts only on a queued task whose status is Error: the
\* task becomes Pending with progress 0 and no error message, and an idle
\* queue is started so that a Pending task becomes Processing; for any
\* other task retry_task changes nothing.  Stated of the result r of the
\* call in every reachable state, for every task and every environment.
C10_RetryOnlyErrorTasks ==
    \A id \in TaskIds : \A oc \in RetryChoices(id) :
       LET r == retry_from(State, id, oc)
       IN IF InQueue(tasks, id) /\ StatusOf(id) = ERROR
          THEN /\ InQueue(r.tasks, id)
               /\ \/ Has(r.emitted, "task_started", id)
                  \/ LET t == TaskOf(r.tasks, id)
                     IN t.status = PENDING /\ t.progress = 0 /\ t.error_message = ""
               /\ IF is_running
                  THEN /\ r.emitted = <<Sig("retry_task", id)>>
                       /\ r.tasks = [i \in DOMAIN tasks |->
                                       IF tasks[i].id = id
                                       THEN [tasks[i] EXCEPT !.status = PENDING,
                                                             !.progress = 0,
                                                             !.error_message = ""]
                                       ELSE tasks[i]]
                       /\ r.current_worker = current_worker
                       /\ r.is_running /\ r.is_paused = is_paused
                       /\ r.next_id = next_id /\ r.files = files /\ r.orphans = orphans
                  ELSE /\ Has(r.emitted, "queue_started", 0)
                       /\ Started(r.emitted) # {}
          ELSE r = State

\* retry_task has started an idle queue
C10_Witness ==
    /\ Called(emitted, "retry_task")
    /\ Len(emitted) > 1
    /\ emitted[2] = Sig("start", 0)
    /\ Started(emitted) # {}

\* --------------------------------------------------------------- C11
\* C11: terminal statuses are stable: a Done task never changes status
\* again and an Error task leaves Error only by a retry_task call on it;
\* no other call and no worker event changes the status of a Done or Error
\* task.
C11_TerminalStatusStable ==
    [][\A i \in DOMAIN tasks :
          LET t == tasks[i]
          IN t.status \in {DONE, ERROR} /\ InQueue(tasks', t.id) =>
                \/ TaskOf(tasks', t.id).status = t.status
                \/ t.status = ERROR /\ emitted'[1] = Sig("retry_task", t.id)]_vars

\* a task completed while another task, failed earlier, is still Error
C11_Witness ==
    \E i, j \in DOMAIN tasks :
       /\ tasks[i].status = ERROR
       /\ ~Has(emitted, "task_failed", tasks[i].id)
       /\ Has(emitted, "task_completed", tasks[j].id)
       /\ tasks[j].status = DONE

RunNext ==
    \/ add_task
    \/ start
    \/ process_output
    \/ process_finished
    \/ process_crashed
    \/ process_failed_to_start
    \/ orphan_exit

\* a step in which the QProcess of the current worker reports its end
ProcessExit ==
    /\ current_worker.process = "running"
    /\ emitted' # <<>>
    /\ emitted'[1].sig \in {"p_finished", "p_errorOccurred_Crashed",
                            "p_errorOccurred_FailedToStart"}

\* Weak fairness of the end of a running process, written out: a process
\* does not stay running forever without ending (the end is enabled
\* exactly while current_worker.process is "running").
ProcessesExit ==
    \/ []<>(current_worker.process # "running")
    \/ []<><<ProcessExit>>_vars

RunSpec ==
    /\ Init
    /\ [][RunNext]_vars
    /\ ProcessesExit
    /\ WF_vars(orphan_exit)

\* the queue has reported completion and is idle with nothing left to do
QueueCompleted ==
    /\ ~is_running
    /\ Has(emitted, "queue_completed", 0)
    /\ \A i \in DOMAIN tasks : tasks[i].status \notin {PENDING, PROCESSING}

\* a task made from a split part is never split itself
PartsAreNotSplit ==
    \A i \in DOMAIN emitted :
       emitted[i].sig \in {"split_part", "split_failed", "create_split_part_tasks"} =>
          /\ InQueue(tasks, emitted[i].task)
          /\ TaskOf(tasks, emitted[i].task).intermediate_file = intermediate_file_default

\* C13: queue processing terminates: once start() has set the queue
\* running, and pause() and stop() are not called and every process exits,
\* queue_completed is eventually emitted with the queue idle and no task
\* Pending or Processing; tasks of split parts are never split again.
C13_QueueTerminates ==
    /\ is_running ~> QueueCompleted
    /\ []PartsAreNotSplit

C15_RejectedTaskSpawnsNothing ==
    \A i \in DOMAIN emitted :
       emitted[i].sig = "validate_task_rejected" =>
          LET id == emitted[i].task
          IN /\ i > 1 /\ emitted[i - 1] = Sig("task_started", id)
             /\ i + 2 <= Len(emitted)
             /\ emitted[i + 1] = SigMsg("w_task_failed", id, "validation")
             /\ emitted[i + 2] = SigMsg("task_failed", id, "validation")
             /\ ~Has(emitted, "p_start", id)
             /\ current_worker.task = id => current_worker.process = "none"
             /\ ~Has(emitted, "split_part", id) /\ ~Has(emitted, "split_failed", id)

\* a task was rejected and the scan went on to spawn the next task's process
C15_Witness ==
    \E i \in DOMAIN emitted :
       /\ emitted[i].sig = "validate_task_rejected"
       /\ \E j \in DOMAIN emitted :
             j > i /\ emitted[j].sig = "p_start" /\ emitted[j].task # emitted[i].task

\* --------------------------------------------------------------- C16
\* C16: a split task never ends Done with a missing part: in either split
\* mode, when the split commands exit with code 0 but an expected part
\* file does not exist afterwards, the split raises, the task fails with
\* the split error and ends with status Error, it is not reported
\* completed, and no tasks of split parts are added to the queue.
C16_MissingPartFailsSplit ==
    \A i \in DOMAIN emitted :
       emitted[i].sig = "part_file_missing" =>
          LET id == emitted[i].task
          IN /\ i + 2 <= Len(emitted)
             /\ emitted[i + 1] = Sig("split_failed", id)
             /\ emitted[i + 2] = SigMsg("w_task_failed", id, "Split failed")
             /\ InQueue(tasks, id) => StatusOf(id) = ERROR
             /\ ~Has(emitted, "task_completed", id)
             /\ ~Has(emitted, "w_split_parts_created", id)

\* --------------------------------------------------------------- C17
\* C17: worker stop escalates in order.  Of the result r of stop() on the
\* current worker, in every reachable state and for every behaviour of the
\* process: on a running worker the first thing is the request to
\* terminate; when the process exits within the graceful wait its end is
\* handled and no kill is issued; otherwise the kill follows the request
\* directly; on a worker that is not running (no process, or no longer
\* running) stop() changes nothing.  And in every operation a kill is
\* preceded directly by the request to terminate the same process.
C17_StopEscalatesInOrder ==
    /\ \A j \in DOMAIN emitted :
          emitted[j].sig = "p_kill" =>
             j > 1 /\ emitted[j - 1] = Sig("p_terminate", emitted[j].task)
    /\ LET s0 == [State EXCEPT !.is_paused = TRUE]
           w  == current_worker
       IN \A out \in StopOutcomes : \A oc \in Choices(s0, 1) :
             LET r == worker_stop(s0, out, oc)
             IN IF w.process # "none" /\ w.is_running
                THEN /\ Len(r.emitted) >= 2
                     /\ r.emitted[1] = Sig("p_terminate", w.task)
                     /\ ~r.current_worker.is_running
                     /\ IF out \in {"exit0", "exit_nonzero"}
                        THEN /\ r.emitted[2] = Sig("p_finished", w.task)
                             /\ ~Has(r.emitted, "p_kill", w.task)
                        ELSE /\ r.emitted[2] = Sig("p_kill", w.task)
                             /\ Cardinality({i \in DOMAIN r.emitted :
                                                r.emitted[i].sig = "p_kill"}) = 1
                ELSE r = s0

\* stop() ended a process that exited within the graceful wait
C17_Witness ==
    /\ Called(emitted, "stop")
    /\ \E i \in DOMAIN emitted :
          /\ emitted[i].sig = "p_terminate"
          /\ i < Len(emitted)
          /\ emitted[i + 1] = Sig("p_finished", emitted[i].task)
    /\ ~\E i \in DOMAIN emitted : emitted[i].sig = "p_kill"

\* --------------------------------------------------------------- C18
\* the contribution of one task to the overall progress
Contribution(t) ==
    CASE t.status = DONE -> 100
      [] t.status = PROCESSING -> t.progress
      [] OTHER -> 0

\* the sum of the contributions of the tasks at the positions in I
RECURSIVE SumOfContributions(_)
SumOfContributions(I) ==
    IF I = {} THEN 0
    ELSE LET i == CHOOSE x \in I : TRUE
         IN Contribution(tasks[i]) + SumOfContributions(I \ {i})

\* total_progress is the average of the contributions (0 for an empty
\* queue) and lies in [0,100]
AverageInRange ==
    LET p == total_progress(tasks)
    IN /\ p.den > 0
       /\ p.num * Len(tasks) = SumOfContributions(DOMAIN tasks) * p.den
       /\ tasks = <<>> => p.num = 0
       /\ 0 <= p.num /\ p.num <= 100 * p.den

\* C18 as stated: total_progress is the average over the tasks of 100 for
\* a Done task, its progress for a Processing task and 0 otherwise (0 for
\* an empty queue), lies in [0,100], and equals 100 only when every task
\* is Done.
C18_TotalProgressAverage ==
    /\ AverageInRange
    /\ LET p == total_progress(tasks)
       IN p.num = 100 * p.den => \A i \in DOMAIN tasks : tasks[i].status = DONE

\* C18: total_progress is that average, lies in [0,100], and equals 100
\* only when the queue is not empty and every task is Done or is
\* Processing with progress 100.
C18_TotalProgressFullWhenAllAt100 ==
    /\ AverageInRange
    /\ LET p == total_progress(tasks)
       IN p.num = 100 * p.den =>
             /\ tasks # <<>>
             /\ \A i \in DOMAIN tasks :
                   \/ tasks[i].status = DONE
                   \/ tasks[i].status = PROCESSING /\ tasks[i].progress = 100

\* the overall progress is 100 while one task is Done and another one is
\* still Processing
C18_Witness ==
    LET p == total_progress(tasks)
    IN /\ p.num = 100 * p.den
       /\ \E i \in DOMAIN tasks : tasks[i].status = PROCESSING
       /\ \E i \in DOMAIN tasks : tasks[i].status = DONE

\* --------------------------------------------------------------- C19
\* A worker with some duration reads chunks of output, one after another.
ParseInit ==
    /\ QueueInit /\ ValidateIdle /\ BuildIdle
    /\ duration \in Durations
    /\ output = NoOutput
    /\ progress_updated = <<>>

\* readyRead -> _on_stdout / _on_stderr -> _parse_progress(data)
_on_stdout ==
    /\ \E c \in Chunks :
          /\ output' = c
          /\ progress_updated' = _parse_progress(c, duration)
    /\ UNCHANGED <<duration, queue_vars, validate_vars, build_vars>>

ParseSpec == ParseInit /\ [][_on_stdout]_vars

\* elapsed time of the marker in the chunk read
Elapsed == output.hh * 360000 + output.mm * 6000 + output.ss

\* C19: every progress value the worker emits lies in [0,100]: a matched
\* time= marker yields elapsed/duration*100, or 100 when that is more,
\* the terminal marker yields 100 (after the value of a time= marker in
\* the same chunk), and when the duration is not positive (unknown) a
\* time= marker yields no value.
C19_ProgressInRange ==
    LET timed == output.kind = "time" /\ duration > 0
        n     == (IF timed THEN 1 ELSE 0) + (IF output.end THEN 1 ELSE 0)
    IN /\ Len(progress_updated) = n
       /\ \A i \in DOMAIN progress_updated :
             LET v == progress_updated[i]
             IN v.den > 0 /\ 0 <= v.num /\ v.num <= 100 * v.den
       /\ timed =>
             LET v == progress_updated[1]
             IN IF Elapsed <= duration
                THEN v = Float(Elapsed * 100, duration)
                ELSE v.num = 100 * v.den
       /\ output.end =>
             LET v == progress_updated[n]
             IN v.num = 100 * v.den

\* a marker past the end of the video was clamped, and the terminal marker
\* came in the same chunk
C19_Witness ==
    /\ output.kind = "time"
    /\ duration > 0
    /\ Elapsed > duration
    /\ output.end
    /\ Len(progress_updated) = 2

\* --------------------------------------------------------------- C20
\* FFmpegWorker.start validates one task after another.
ValidateInit ==
    /\ QueueInit /\ ParseIdle /\ BuildIdle
    /\ task = NoTask
    /\ validated = NotValidated

validate ==
    /\ \E t \in ValidatedTasks :
          /\ task' = t
          /\ validated' = validate_task(t)
    /\ UNCHANGED <<queue_vars, parse_vars, build_vars>>

ValidateSpec == ValidateInit /\ [][validate]_vars

\* C20: validate_task rejects every task whose speed is below 0.5 or
\* above 2.0, whose volume is outside [0.0, 2.0], or whose CRF is outside
\* [0, 51] while the quality mode is CRF; in Bitrate mode it does not
\* reject a task for its CRF.  The three range validators of
\* utils/validators.py draw the same lines.
C20_RangesRejected ==
    validated # NotValidated =>
       /\ task.speed < 50 \/ task.speed > 200 => ~validated.is_valid
       /\ task.volume < 0 \/ task.volume > 200 => ~validated.is_valid
       /\ task.quality_mode = "CRF" /\ (task.crf < 0 \/ task.crf > 51) =>
             ~validated.is_valid
       /\ task.quality_mode = "BITRATE" =>
             /\ validated.error_msg # "CRF"
             /\ validated = validate_task([task EXCEPT !.crf = 23])
       /\ validated.error_msg = "Speed" => ~validate_speed(task.speed)
       /\ validated.error_msg = "Volume" => ~validate_volume(task.volume)
       /\ validated.error_msg = "CRF" => ~validate_crf(task.crf)
       /\ validated.is_valid =>
             /\ validate_speed(task.speed)
             /\ validate_volume(task.volume)
             /\ task.quality_mode = "CRF" => validate_crf(task.crf)

\* a task in Bitrate mode with a CRF out of range was accepted
C20_Witness ==
    /\ validated # NotValidated
    /\ task.quality_mode = "BITRATE"
    /\ task.crf = 52
    /\ validated.is_valid

\* --------------------------------------------------------------- C21
\* FFmpegWorker.start validates the task it was given.
FileCheckInit ==
    /\ QueueInit /\ ParseIdle /\ BuildIdle
    /\ task \in FileTasks
    /\ validated = NotValidated

validate_files ==
    /\ validated = NotValidated
    /\ validated' = validate_task(task)
    /\ UNCHANGED <<task, queue_vars, parse_vars, build_vars>>

FileCheckSpec == FileCheckInit /\ [][validate_files]_vars

\* C21: for every feature that is enabled and names a file (image overlay,
\* video overlay, intro, outro, subtitle, font, watermark image),
\* validate_task fails when the file does not exist, with the message of a
\* file that is missing, so the command is never built with a missing file
\* of an enabled feature; a feature that is off is not looked at.
C21_MissingFilesRejected ==
    validated # NotValidated =>
       LET missing == {f \in Features : task[f] = "missing"}
       IN /\ missing # {} => ~validated.is_valid
          /\ missing # {} /\ task.paths_exist => validated.error_msg \in missing
          /\ missing = {} /\ task.paths_exist => validated.is_valid

\* ----------------------------------------------------- build_command claims
\* FFmpegWorker.start builds the command of the task it was given; the
\* preview and a retry build it again.
BuildInit ==
    /\ QueueInit /\ ParseIdle /\ ValidateIdle
    /\ build_task \in BuildTasks
    /\ cmd = NoCmd

build_command ==
    /\ cmd' \in build_commands(build_task)
    /\ UNCHANGED <<build_task, queue_vars, parse_vars, validate_vars>>

BuildSpec == BuildInit /\ [][build_command]_vars

\* --------------------------------------------------------------- C22
\* the atempo stages of an audio chain, in order
RECURSIVE AtempoStages(_)
AtempoStages(chain) ==
    IF chain = <<>> THEN <<>>
    ELSE (IF Head(chain).filter = "atempo" THEN <<Head(chain).value>> ELSE <<>>)
         \o AtempoStages(Tail(chain))

RECURSIVE Product(_)
Product(factors) ==
    IF factors = <<>> THEN Float(1, 1)
    ELSE LET rest == Product(Tail(factors))
         IN Float(Head(factors).num * rest.num, Head(factors).den * rest.den)

SameNumber(x, y) == x.num * y.den = y.num * x.den

AtMost(x, y) == x.num * y.den <= y.num * x.den

\* C22: for every positive speed the tempo loop ends with a chain whose
\* atempo factors all lie in [0.5, 2.0] and whose product is the speed
\* (5.0 gives 2.0, 2.0, 1.25).
C22_AtempoDecomposition ==
    cmd # NoCmd =>
       LET stages == AtempoStages(cmd.audio)
       IN /\ \A i \in DOMAIN stages :
                AtMost(Float(1, 2), stages[i]) /\ AtMost(stages[i], Float(2, 1))
          /\ SameNumber(Product(stages), Float(build_task.speed, 100))
          /\ build_task.speed = 500 =>
                /\ Len(stages) = 3
                /\ SameNumber(stages[1], Float(2, 1))
                /\ SameNumber(stages[2], Float(2, 1))
                /\ SameNumber(stages[3], Float(125, 100))

C22_Witness ==
    /\ cmd # NoCmd
    /\ build_task.speed = 1
    /\ Len(AtempoStages(cmd.audio)) = 7
    /\ AtempoStages(cmd.audio)[1] = Float(1, 2)

\* --------------------------------------------------------------- C23
\* whether a stage of the video chain is asked for by the task
Enabled(t, stage) ==
    CASE stage = "scale" -> t.scale
      [] stage = "crop" -> t.crop
      [] stage = "setpts" -> t.speed # 100
      [] stage = "watermark_text" -> t.watermark_text
      [] stage = "drawtext" -> t.text_settings
      [] stage = "subtitles" -> t.subtitle_file

StageOrder ==
    <<"scale", "crop", "setpts", "watermark_text", "drawtext", "subtitles">>

\* C23: in the standard pipeline the video filter chain holds every enabled
\* stage and nothing else, in the order scale, crop, speed (setpts),
\* watermark text, advanced text overlay, subtitle burn-in.
C23_StandardChainOrder ==
    cmd.pipeline = "standard" =>
       cmd.video = SelectSeq(StageOrder, LAMBDA stage : Enabled(build_task, stage))

\* --------------------------------------------------------------- C24
\* C24: build_command is deterministic: a second call on the unmodified
\* task returns the command the first call returned, in every pipeline,
\* stacking with a folder source included.
C24_BuildIsDeterministic == [][cmd # NoCmd => cmd' = cmd]_vars

\* --------------------------------------------------------------- C25
Stacking(t) == t.stack_mode \in StackModes

\* the length of the main stream the input flags of a command select
EffectiveDuration(t, c) ==
    (IF c.to # None THEN c.to ELSE t.duration) - (IF c.ss # None THEN c.ss ELSE 0)

\* C25: whenever stacking is active (hstack or vstack, file or folder) the
\* command carries an output duration -t equal to the effective duration of
\* the main video, the length its input trim flags select, and no audio
\* mixing filter: the audio is the main video's alone.
C25_StackingClampsDuration ==
    cmd # NoCmd /\ Stacking(build_task) =>
       /\ cmd.t # None
       /\ cmd.t = EffectiveDuration(build_task, cmd)
       /\ \A i \in DOMAIN cmd.audio : cmd.audio[i].filter # "amix"

\* --------------------------------------------------------------- C26
\* C26: the input trim flags reflect the trim settings: with trim_start s
\* and cut_from_end c on a video of known duration d the input starts at s
\* and ends at d - c, never below 0 (d = 60, s = 5, c = 10: start 5, end 50,
\* an effective duration of 45).
C26_InputTrimFlags ==
    cmd # NoCmd =>
       LET d == build_task.duration
           s == build_task.trim_start
           c == build_task.cut_from_end
       IN /\ s # None => cmd.ss = s
          /\ c # None /\ d > 0 =>
                /\ cmd.to = (IF d - c < 0 THEN 0 ELSE d - c)
                /\ cmd.to >= 0
          /\ d = 600 /\ s = 50 /\ c = 100 =>
                /\ cmd.ss = 50 /\ cmd.to = 500
                /\ EffectiveDuration(build_task, cmd) = 450

C26_Witness ==
    /\ cmd.pipeline = "complex"
    /\ build_task.duration = 600
    /\ build_task.trim_start = 50
    /\ build_task.cut_from_end = 100
    /\ build_task.trim_end = 300
    /\ cmd.ss = 50 /\ cmd.to = 500

\* --------------------------------------------------------------- C30
HasStage(chain, name) == \E i \in DOMAIN chain : chain[i] = name

\* C30: video and audio change speed together: in every command, of the
\* standard pipeline and of the complex one with or without a background
\* frame, the main video chain has a setpts stage exactly when the main
\* audio chain has atempo stages, and both exactly when speed is not 1.0.
C30_SpeedAppliedTogether ==
    cmd # NoCmd =>
       /\ HasStage(cmd.video, "setpts") <=> AtempoStages(cmd.audio) # <<>>
       /\ HasStage(cmd.video, "setpts") <=> build_task.speed # 100

\* --------------------------------------------------------------- C29
\* C29: a Processing task is always a member of the task list: no step
\* takes a task that is Processing out of the list (remove_task refuses it,
\* clear_tasks does nothing while the queue runs, paused or not).
C29_ProcessingTaskStaysQueued ==
    [][\A i \in DOMAIN tasks :
          tasks[i].status = PROCESSING => InQueue(tasks', tasks[i].id)]_vars

\* --------------------------------------------------------------- C27
Processing(id) == InQueue(tasks, id) /\ StatusOf(id) = PROCESSING

\* the current worker is the worker of task id and its process is alive
WorkerBound(id) ==
    current_worker.task = id /\ current_worker.process = "running"

\* C27: every task that enters Processing eventually leaves it: while every
\* spawned process eventually exits, a Processing task always has a live
\* worker bound to it whose end is delivered to the queue manager, so no
\* task stays Processing forever.
C27_ProcessingEventuallyLeaves ==
    /\ \A id \in TaskIds : Processing(id) ~> ~Processing(id)
    /\ [](\A id \in TaskIds : Processing(id) => WorkerBound(id))

\* --------------------------------------------------------------- C28
\* The split tasks of the queue model have sources of their own, so their
\* part files differ.  Both splitters name the part files after the stem of
\* the input and the output directory alone, so two split tasks of one
\* source write the same files and their part tasks name the same
\* intermediate_file.  same_source_part is the first of these files.
same_source_part == part_file(1, 1)

\* The queue after one source was split twice: start() has split both
\* tasks and appended a part task for each, stop() has put the part task
\* it interrupted back to Pending, and the two split tasks, Done, have been
\* taken out with remove_task.
SamePartInit ==
    /\ tasks = <<VideoTask(1, same_source_part), VideoTask(2, same_source_part)>>
    /\ current_worker = NoWorker
    /\ is_running = FALSE
    /\ is_paused = FALSE
    /\ next_id = MaxTasks + 1
    /\ files = {same_source_part}
    /\ orphans = 0
    /\ emitted = <<>>
    /\ ParseIdle /\ ValidateIdle /\ BuildIdle

SamePartNext ==
    \/ clear_tasks
    \/ \E id \in TaskIds : remove_task(id)
    \/ start
    \/ pause
    \/ resume
    \/ stop
    \/ \E id \in TaskIds : retry_task(id)
    \/ process_output
    \/ process_finished
    \/ process_crashed
    \/ process_failed_to_start
    \/ orphan_exit

SamePartSpec == SamePartInit /\ [][SamePartNext]_vars

\* the tasks of a queue that still need file f as their input
Needs(ts, f) ==
    {i \in DOMAIN ts : /\ ts[i].status \in {PENDING, PROCESSING}
                       /\ ts[i].intermediate_file = f}

\* C28: an intermediate (split part) file is never deleted while a queued
\* task that uses it as input is still Pending or Processing: the cleanup
\* after a completion removes only a file no unfinished task needs, also
\* when one source was split more than once.
C28_NeededPartFileIsKept ==
    [][\A f \in files : f \notin files' => Needs(tasks', f) = {}]_vars

====
